---------------------------- MODULE Spec2Model ----------------------------
(***************************************************************************)
(* A model of the AutoDE listings bot: the sliding-window rate limiter,    *)
(* the retry decorator, the sanitizers, the SQLite-backed store and the    *)
(* scraping cycle (src/common.py, src/auto_de_bot.py, src/config.py).      *)
(*                                                                         *)
(* Time is counted in whole ticks.  For the rate limiter and the retry     *)
(* decorator a tick is a second; for the store's timestamps a day is       *)
(* TicksPerDay ticks.  Python text is a sequence of one-character strings; *)
(* a Python value is a record tagged with its type.                        *)
(***************************************************************************)
EXTENDS Integers, Sequences, FiniteSets, TLC

(***************************************************************************)
(* Bounds of the model.                                                    *)
(***************************************************************************)
MaxClock == 4
TicksPerDay == 2
MaxDays == 1
MaxRequests == 2
MaxWindow == 3
MaxAttempts == 3
MaxDelay == 2
MaxBackoff == 2
MaxCycles == 2
MaxLen == 4
MaxBatch == 2

(***************************************************************************)
(* Program constants of src/config.py, each read from the environment: the *)
(* model runs with DELETE_OLD_CARS_DAYS=1 (default 7), MAX_PAGES=2         *)
(* (default 5), a MAIN_LOOP_INTERVAL of one tick (default 300 s) and       *)
(* CHECK_ROBOTS_TXT at its default.                                        *)
(***************************************************************************)
DELETE_OLD_CARS_DAYS == 1
MAX_PAGES == 2
MAIN_LOOP_INTERVAL == 1
CHECK_ROBOTS_TXT == TRUE

VARIABLES
    clock,          \* the UTC time, in ticks
    tz,             \* the host's local-time offset from UTC, in ticks
    cars,           \* DatabaseManager: the rows of table cars
    first_insert,   \* history: per id, when the id entered the table
    last_info,      \* history: per id, the car_info of the last successful upsert
    store_op,       \* history: the last store operation, its inputs and its result
    max_requests,   \* RateLimiter.max_requests
    time_window,    \* RateLimiter.time_window
    requests,       \* RateLimiter.requests: the recorded timestamps
    issued,         \* history: when the calls of the trailing window went ahead
    rl_op,          \* history: the last wait_if_needed call
    max_retries,    \* retry_on_failure: the decorator's arguments
    delay,
    backoff,
    retries,        \* wrapper: the failures counted so far
    current_delay,  \* wrapper: the next sleep
    rt_pc,          \* wrapper: "idle", "loop", "returned", "raised", "interrupted"
    rt_value,       \* wrapper: the value returned
    rt_error,       \* wrapper: the exception that left the wrapper
    op_log,         \* history: the outcome of each invocation of func
    sleeps,         \* history: the delays slept, in order
    running,        \* AutoDEBot.running
    stats,          \* AutoDEBot.stats
    pc,             \* where run() and main() stand
    fn_pc,          \* where the function under the wrapper stands
    page,           \* check_new_listings: the page of the for loop
    total_processed, \* check_new_listings: the cars processed this cycle
    net,            \* history: the last two network events
    attempted,      \* history: the pages this cycle has called find_endpoint for
    evictions,      \* history: the eviction passes of this cycle
    reports,        \* history: the error reports this cycle handed to send_error_to_telegram
    credentials,    \* whether TELEGRAM_API_KEY and TELEGRAM_CHAT_ID are configured
    stats0,         \* history: stats when the cycle started
    shutdown_at,    \* history: where run() stood when the signal arrived
    pl_pc,          \* where process_listing_page stands
    data,           \* process_listing_page: what fetch_page_data returned
    car_listings,   \* process_listing_page: the listings still to process
    processed_count, \* process_listing_page: the cars inserted so far
    pl_ret,         \* process_listing_page: the value returned
    batch_log,      \* history: per listing of the batch, what became of it
    arg_value,      \* a sanitizer's argument
    arg_length,     \* sanitize_string's max_length
    arg_default,    \* sanitize_number's default
    out_text,       \* what sanitize_string returned
    out_number,     \* what sanitize_number returned
    applied         \* whether the sanitizers have been applied

storeVars == <<tz, cars, first_insert, last_info, store_op>>
limiterVars == <<max_requests, time_window, requests, issued, rl_op>>
retryVars == <<max_retries, delay, backoff, retries, current_delay, rt_pc,
               rt_value, rt_error, op_log, sleeps>>
cycleVars == <<running, stats, pc, fn_pc, page, total_processed, net,
               attempted, evictions, reports, credentials, stats0, shutdown_at>>
pageVars == <<pl_pc, data, car_listings, processed_count, pl_ret, batch_log>>
pureVars == <<arg_value, arg_length, arg_default, out_text, out_number, applied>>
botVars == <<cycleVars, pageVars, pureVars>>
vars == <<clock, storeVars, limiterVars, retryVars, botVars>>

(***************************************************************************)
(* Python values.                                                          *)
(***************************************************************************)
PyNone == [t |-> "none"]
PyInt(n) == [t |-> "int", v |-> n]
\* the float n / 10^s, s >= 1 decimal places
PyFloat(n, s) == [t |-> "float", v |-> n, s |-> s]
PyStr(s) == [t |-> "str", v |-> s]

\* dict.get(key): the value, or None when the key is absent
Get(d, k) == IF k \in DOMAIN d THEN d[k] ELSE PyNone

\* dict.get(key, default)
GetOr(d, k, default) == IF k \in DOMAIN d THEN d[k] ELSE default

EmptyDict == [k \in {} |-> PyNone]

Digit == <<"0", "1", "2", "3", "4", "5", "6", "7", "8", "9">>
Digits == {Digit[i] : i \in 1..10}
DigitVal(c) == (CHOOSE i \in 1..10 : Digit[i] = c) - 1

RECURSIVE Pow10(_)
Pow10(k) == IF k = 0 THEN 1 ELSE 10 * Pow10(k - 1)

RECURSIVE NatToStr(_)
NatToStr(n) ==
    IF n < 10 THEN <<Digit[n + 1]>>
    ELSE NatToStr(n \div 10) \o <<Digit[(n % 10) + 1]>>

IntToStr(n) == IF n < 0 THEN <<"-">> \o NatToStr(-n) ELSE NatToStr(n)

RECURSIVE PadZeros(_, _)
PadZeros(s, width) == IF Len(s) >= width THEN s ELSE PadZeros(<<"0">> \o s, width)

\* str(value) of a Python value
PyToStr(value) ==
    CASE value.t = "str" -> value.v
      [] value.t = "int" -> IntToStr(value.v)
      [] value.t = "float" ->
            LET a == IF value.v < 0 THEN -value.v ELSE value.v
                p == Pow10(value.s)
            IN  (IF value.v < 0 THEN <<"-">> ELSE <<>>)
                \o NatToStr(a \div p) \o <<".">> \o PadZeros(NatToStr(a % p), value.s)
      [] OTHER -> <<"N", "o", "n", "e">>

(***************************************************************************)
(* sanitize_string (src/common.py:111-130).                                *)
(***************************************************************************)
NUL == "NUL"
Whitespace == {" ", "\t", "\n"}
dangerous_chars == {"<", ">", "\"", "'", "\\", NUL}
Unknown == <<"U", "n", "k", "n", "o", "w", "n">>

RECURSIVE LStrip(_)
LStrip(s) ==
    IF s # <<>> /\ Head(s) \in Whitespace THEN LStrip(Tail(s)) ELSE s

RECURSIVE RStrip(_)
RStrip(s) ==
    IF s # <<>> /\ s[Len(s)] \in Whitespace THEN RStrip(SubSeq(s, 1, Len(s) - 1)) ELSE s

\* str.strip()
Strip(s) == RStrip(LStrip(s))

\* a blacklist without the two quote characters
NotDangerousButQuotes(c) == c \notin dangerous_chars \ {"\"", "'"}

NotDangerous(c) == c \notin dangerous_chars

sanitize_string(value, max_length) ==
    IF value = PyNone THEN Unknown
    ELSE LET stripped == Strip(PyToStr(value))
             limited == IF Len(stripped) > max_length
                        THEN SubSeq(stripped, 1, max_length)
                        ELSE stripped
             clean_value == SelectSeq(limited, NotDangerous)
         IN  IF clean_value # <<>> THEN clean_value ELSE Unknown

(***************************************************************************)
(* sanitize_number (src/common.py:133-147).                                *)
(***************************************************************************)
\* a filter without the '-' among the characters it keeps
NumericCharNoMinus(c) == c \in Digits \cup {"."}

NumericChar(c) == c \in Digits \cup {".", "-"}

Count(s, c) == Cardinality({i \in 1..Len(s) : s[i] = c})

RECURSIVE DigitsToNat(_)
DigitsToNat(s) ==
    IF s = <<>> THEN 0 ELSE 10 * DigitsToNat(SubSeq(s, 1, Len(s) - 1)) + DigitVal(s[Len(s)])

AllDigits(s) == \A i \in 1..Len(s) : s[i] \in Digits

\* an optional sign followed by the unsigned part
Unsigned(s) == IF s # <<>> /\ Head(s) = "-" THEN Tail(s) ELSE s
Sign(s) == IF s # <<>> /\ Head(s) = "-" THEN -1 ELSE 1

\* int(text) accepts [-]digits+ and raises ValueError otherwise
IntParses(s) == Unsigned(s) # <<>> /\ AllDigits(Unsigned(s))
ParseInt(s) == PyInt(Sign(s) * DigitsToNat(Unsigned(s)))

DotAt(s) == CHOOSE i \in 1..Len(s) : s[i] = "."
IntPart(s) == SubSeq(s, 1, DotAt(s) - 1)
FracPart(s) == SubSeq(s, DotAt(s) + 1, Len(s))

\* float(text), for text of digits, '.' and '-' holding a '.': accepts
\* [-]digits*.digits* with at least one digit and raises ValueError otherwise
FloatParses(s) ==
    LET u == Unsigned(s)
    IN  /\ Count(u, ".") = 1
        /\ AllDigits(IntPart(u)) /\ AllDigits(FracPart(u))
        /\ Len(u) >= 2

\* trailing zeros of the fraction dropped, one decimal place kept
RECURSIVE Normalize(_, _)
Normalize(n, s) == IF s > 1 /\ n % 10 = 0 THEN Normalize(n \div 10, s - 1) ELSE PyFloat(n, s)

ParseFloat(s) ==
    LET u == Unsigned(s)
        f == IF FracPart(u) = <<>> THEN <<"0">> ELSE FracPart(u)
    IN  Normalize(Sign(s) * (DigitsToNat(IntPart(u)) * Pow10(Len(f)) + DigitsToNat(f)), Len(f))

sanitize_number(value, default) ==
    CASE value.t \in {"int", "float"} -> value
      [] value.t = "str" ->
            LET clean_value == SelectSeq(value.v, NumericChar)
            IN  IF Count(clean_value, ".") > 0
                THEN IF FloatParses(clean_value) THEN ParseFloat(clean_value) ELSE default
                ELSE IF IntParses(clean_value) THEN ParseInt(clean_value) ELSE default
      [] OTHER -> default

(***************************************************************************)
(* RateLimiter (src/common.py:48-73).                                      *)
(***************************************************************************)
\* the recorded timestamps still inside the window at time now
Prune(reqs, now, window) ==
    LET Inside(req_time) == now - req_time < window
    IN  SelectSeq(reqs, Inside)

\* a limit that lets one request more through before it waits
LimitExceeded(reqs, limit) == Len(reqs) > limit

\* len(self.requests) >= self.max_requests
LimitReached(reqs, limit) == Len(reqs) >= limit

\* a wait measured from the newest recorded request
SleepTimeFromNewest(reqs, now, window) == window - (now - reqs[Len(reqs)])

\* sleep_time = self.time_window - (now - self.requests[0])
SleepTime(reqs, now, window) == window - (now - reqs[1])

\* RateLimiter.wait_if_needed, called at time clock; it returns, and the
\* caller's request goes ahead, at time clock'
wait_if_needed ==
    LET now == clock
        kept == Prune(requests, now, time_window)
        sleep_time == IF LimitReached(kept, max_requests)
                      THEN SleepTime(kept, now, time_window)
                      ELSE 0
        after == IF sleep_time > 0 THEN <<now>> ELSE Append(kept, now)
        resumed == IF sleep_time > 0 THEN now + sleep_time ELSE now
    IN  /\ clock' = resumed
        /\ requests' = after
        /\ issued' = Prune(Append(issued, resumed), resumed, time_window)
        /\ rl_op' = [called |-> TRUE, pre |-> requests, now |-> now,
                      slept |-> IF sleep_time > 0 THEN sleep_time ELSE 0,
                      post |-> after]
        /\ UNCHANGED <<max_requests, time_window>>

(***************************************************************************)
(* retry_on_failure (src/common.py:80-108).                                *)
(*                                                                         *)
(* An invocation of func returns a value, raises an Exception, or raises a *)
(* BaseException that is no Exception (KeyboardInterrupt, SystemExit),     *)
(* which "except Exception" does not catch.                                *)
(***************************************************************************)
ReturnValues == {"data", "None"}
Errors == {"Timeout", "HTTPError"}
Outcomes ==
    [kind : {"ok"}, value : ReturnValues] \cup [kind : {"fail"}, err : Errors]
    \cup [kind : {"interrupt"}]

\* a wrapper that gives up one failure later
GivesUpLate(n, limit) == n > limit

\* if retries >= max_retries: raise
GivesUp(n, limit) == n >= limit

\* a delay that grows by addition
NextDelayAdded(d, factor) == d + factor

\* current_delay *= backoff
NextDelay(d, factor) == d * factor

\* the wrapper is entered: retries = 0, current_delay = delay
wrapper_enter ==
    /\ rt_pc = "idle"
    /\ retries' = 0
    /\ current_delay' = delay
    /\ rt_pc' = "loop"
    /\ UNCHANGED <<clock, max_retries, delay, backoff, rt_value, rt_error, op_log, sleeps>>

\* one pass of the while loop: func is invoked; its value is returned, or
\* its Exception counted and either re-raised or slept on
wrapper_attempt(outcome) ==
    /\ rt_pc = "loop"
    /\ retries < max_retries
    /\ op_log' = Append(op_log, outcome)
    /\ CASE outcome.kind = "ok" ->
              /\ rt_pc' = "returned"
              /\ rt_value' = outcome.value
              /\ UNCHANGED <<clock, retries, current_delay, rt_error, sleeps>>
         [] outcome.kind = "interrupt" ->
              /\ rt_pc' = "interrupted"
              /\ rt_error' = "BaseException"
              /\ UNCHANGED <<clock, retries, current_delay, rt_value, sleeps>>
         [] outcome.kind = "fail" ->
              /\ retries' = retries + 1
              /\ IF GivesUp(retries + 1, max_retries)
                 THEN /\ rt_pc' = "raised"
                      /\ rt_error' = outcome.err
                      /\ UNCHANGED <<clock, current_delay, rt_value, sleeps>>
                 ELSE /\ clock' = clock + current_delay
                      /\ sleeps' = Append(sleeps, current_delay)
                      /\ current_delay' = NextDelay(current_delay, backoff)
                      /\ UNCHANGED <<rt_pc, rt_value, rt_error>>
    /\ UNCHANGED <<max_retries, delay, backoff>>

\* the while condition fails: return None
wrapper_exit ==
    /\ rt_pc = "loop"
    /\ ~(retries < max_retries)
    /\ rt_pc' = "returned"
    /\ rt_value' = "None"
    /\ UNCHANGED <<clock, max_retries, delay, backoff, retries, current_delay,
                   rt_error, op_log, sleeps>>

(***************************************************************************)
(* The store: DatabaseManager (src/common.py:258-375).                     *)
(*                                                                         *)
(* CURRENT_TIMESTAMP is SQLite's UTC time; datetime.now() is the host's    *)
(* naive local time, clock + tz.                                           *)
(***************************************************************************)
TzOffsets == {-1, 0, 1}
CURRENT_TIMESTAMP == clock
LocalNow == clock + tz

\* the car_info dictionaries handed to insert_car
Txt(c) == PyStr(<<c>>)

FeaturesFull(c, n) ==
    ("mileage_road" :> PyInt(n)) @@ ("calendar" :> PyInt(n)) @@ ("gas_pump" :> Txt(c))
    @@ ("speedometer" :> Txt(c)) @@ ("leaf" :> Txt(c)) @@ ("water_drop" :> Txt(c))

CarInfoFull(id, c, n) ==
    ("ID" :> PyStr(id)) @@ ("Model and Make" :> Txt(c)) @@ ("Price" :> PyInt(n))
    @@ ("Link" :> Txt(c)) @@ ("Image" :> Txt(c)) @@ ("Company" :> Txt(c))
    @@ ("Transmission" :> Txt(c)) @@ ("Features" :> FeaturesFull(c, n))

\* a car_info that leaves out every key but the id and the title
CarInfoSparse(id, c) == ("ID" :> PyStr(id)) @@ ("Model and Make" :> Txt(c))

CarInfos ==
    { CarInfoFull(<<"a">>, "x", 1), CarInfoFull(<<"a">>, "y", 2),
      CarInfoSparse(<<"a", "<">>, "z"), CarInfoFull(<<"b">>, "x", 1) }

\* the column values insert_car binds to its statement, and the timestamps
\* the statement leaves to SQLite: created_at is not among the listed
\* columns and takes its DEFAULT, updated_at is given as CURRENT_TIMESTAMP
NewRow(car_info) ==
    LET features == GetOr(car_info, "Features", EmptyDict)
    IN  [ id |-> sanitize_string(Get(car_info, "ID"), 50),
          model_make |-> sanitize_string(Get(car_info, "Model and Make"), 200),
          price |-> sanitize_number(Get(car_info, "Price"), PyInt(0)),
          link |-> sanitize_string(Get(car_info, "Link"), 500),
          image_url |-> sanitize_string(Get(car_info, "Image"), 500),
          company |-> sanitize_string(Get(car_info, "Company"), 50),
          transmission |-> sanitize_string(Get(car_info, "Transmission"), 50),
          mileage |-> sanitize_number(Get(features, "mileage_road"), PyInt(0)),
          first_registration |-> sanitize_number(Get(features, "calendar"), PyInt(0)),
          fuel_type |-> sanitize_string(Get(features, "gas_pump"), 50),
          power_data |-> sanitize_string(Get(features, "speedometer"), 100),
          co2_emission |-> sanitize_string(Get(features, "leaf"), 50),
          consumption |-> sanitize_string(Get(features, "water_drop"), 50),
          created_at |-> CURRENT_TIMESTAMP,
          updated_at |-> CURRENT_TIMESTAMP ]

\* a table that keeps the row already stored under the key beside the new one
InsertKeepingOld(table, row) == table \cup {row}

\* INSERT OR REPLACE on PRIMARY KEY id: the conflicting row is deleted, the
\* new one inserted
InsertOrReplace(table, row) == {r \in table : r.id # row.id} \cup {row}

StoredIds == {NewRow(ci).id : ci \in CarInfos}
NoTime == 0 - 1
NoInfo == EmptyDict
HasRow(table, id) == \E r \in table : r.id = id

\* a lone surrogate, which json decodes from an escape such as \ud800 and
\* which is no whitespace and is not blacklisted
SURROGATE == "SURROGATE"

\* cursor.execute cannot bind the row: a text with a lone surrogate has no
\* UTF-8 encoding, and the UnicodeEncodeError is no sqlite3.Error
Unbindable(row) ==
    \E column \in {"id", "model_make", "link", "image_url", "company", "transmission",
                   "fuel_type", "power_data", "co2_emission", "consumption"} :
        \E i \in 1..Len(row[column]) : row[column][i] = SURROGATE

\* DatabaseManager.insert_car: True and the row replaced; on a
\* sqlite3.Error, False and the table as it was; on an Exception that is
\* no sqlite3.Error, no result: the Exception leaves insert_car, the
\* table as it was
insert_car(car_info) ==
    LET row == NewRow(car_info)
    IN  \/ /\ ~Unbindable(row)
           /\ cars' = InsertOrReplace(cars, row)
           /\ first_insert' = IF HasRow(cars, row.id) THEN first_insert
                               ELSE [first_insert EXCEPT ![row.id] = clock]
           /\ last_info' = [last_info EXCEPT ![row.id] = car_info]
           /\ store_op' = [op |-> "insert", info |-> car_info, ret |-> TRUE,
                           raised |-> FALSE,
                           replaced |-> {r \in cars : r.id = row.id}]
        \/ /\ store_op' = [op |-> "insert", info |-> car_info, ret |-> FALSE,
                           raised |-> FALSE, replaced |-> {}]
           /\ UNCHANGED <<cars, first_insert, last_info>>
        \/ /\ Unbindable(row)
           /\ store_op' = [op |-> "insert", info |-> car_info, ret |-> FALSE,
                           raised |-> TRUE, replaced |-> {}]
           /\ UNCHANGED <<cars, first_insert, last_info>>

\* the rows DELETE FROM cars WHERE created_at < cutoff_date removes
OldRows(table, days) ==
    LET cutoff_date == LocalNow - days * TicksPerDay
    IN  {r \in table : r.created_at < cutoff_date}

\* DatabaseManager.delete_old_cars: the number of rows deleted, or, on a
\* sqlite3.Error, 0 and the table as it was
delete_old_cars(days) ==
    LET deleted == OldRows(cars, days)
        gone == {r.id : r \in deleted}
    IN  \/ /\ cars' = cars \ deleted
           /\ first_insert' = [k \in DOMAIN first_insert |->
                                  IF k \in gone THEN NoTime ELSE first_insert[k]]
           /\ last_info' = [k \in DOMAIN last_info |->
                               IF k \in gone THEN NoInfo ELSE last_info[k]]
           /\ store_op' = [op |-> "delete", days |-> days, now |-> clock,
                           pre |-> cars, post |-> cars \ deleted,
                           ret |-> Cardinality(deleted), fault |-> FALSE]
        \/ /\ store_op' = [op |-> "delete", days |-> days, now |-> clock,
                           pre |-> cars, post |-> cars, ret |-> 0, fault |-> TRUE]
           /\ UNCHANGED <<cars, first_insert, last_info>>

(***************************************************************************)
(* AutoDEBot.extract_car_info and its helpers (src/auto_de_bot.py:130-266) *)
(* with get_vehicle_image_url (src/common.py:240-255).                     *)
(*                                                                         *)
(* A decoded JSON value is None, a number, a text, a dict or a list.       *)
(***************************************************************************)
PyDict(d) == [t |-> "dict", v |-> d]
PyList(s) == [t |-> "list", v |-> s]
IsDict(x) == x.t = "dict"

\* bool(value)
Truthy(x) ==
    CASE x.t = "none" -> FALSE
      [] x.t \in {"int", "float"} -> x.v # 0
      [] x.t = "str" -> x.v # <<>>
      [] x.t = "list" -> x.v # <<>>
      [] OTHER -> DOMAIN x.v # {}

\* extract_car_info returns None
Absent == PyNone

LINK_PREFIX ==
    <<"h", "t", "t", "p", "s", ":", "/", "/", "w", "w", "w", ".", "a", "u",
      "t", "o", ".", "d", "e", "/", "s", "e", "a", "r", "c", "h", "/", "v",
      "e", "h", "i", "c", "l", "e", "/">>

IMAGE_PREFIX ==
    <<"h", "t", "t", "p", "s", ":", "/", "/", "w", "w", "w", ".", "a", "u",
      "t", "o", ".", "d", "e", "/", "i", "m", "a", "g", "e", "s", "/", "v",
      "e", "h", "i", "c", "l", "e", "s", "/">>

\* the pairs of transmission_map and of fuel_map
transmission_map ==
    {<<<<"s", "e", "l", "e", "c", "t", "o", "r", "_", "g", "e", "a", "r", "b", "o", "x", "_", "m", "a", "n", "u", "a", "l", "S", "h", "i", "f", "t">>,
       <<"M", "a", "n", "u", "a", "l">>>>,
     <<<<"s", "e", "l", "e", "c", "t", "o", "r", "_", "g", "e", "a", "r", "b", "o", "x", "_", "a", "u", "t", "o", "m", "a", "t", "i", "c">>,
       <<"A", "u", "t", "o", "m", "a", "t", "i", "c">>>>,
     <<<<"s", "e", "l", "e", "c", "t", "o", "r", "_", "g", "e", "a", "r", "b", "o", "x", "_", "s", "e", "m", "i", "a", "u", "t", "o", "m", "a", "t", "i", "c">>,
       <<"S", "e", "m", "i", "-", "A", "u", "t", "o", "m", "a", "t", "i", "c">>>>}

fuel_map ==
    {<<<<"s", "e", "l", "e", "c", "t", "o", "r", "_", "f", "u", "e", "l", "_", "p", "e", "t", "r", "o", "l">>,
       <<"P", "e", "t", "r", "o", "l">>>>,
     <<<<"s", "e", "l", "e", "c", "t", "o", "r", "_", "f", "u", "e", "l", "_", "d", "i", "e", "s", "e", "l">>,
       <<"D", "i", "e", "s", "e", "l">>>>,
     <<<<"s", "e", "l", "e", "c", "t", "o", "r", "_", "f", "u", "e", "l", "_", "e", "l", "e", "c", "t", "r", "i", "c">>,
       <<"E", "l", "e", "c", "t", "r", "i", "c">>>>,
     <<<<"s", "e", "l", "e", "c", "t", "o", "r", "_", "f", "u", "e", "l", "_", "h", "y", "b", "r", "i", "d">>,
       <<"H", "y", "b", "r", "i", "d">>>>,
     <<<<"s", "e", "l", "e", "c", "t", "o", "r", "_", "f", "u", "e", "l", "_", "l", "p", "g">>,
       <<"L", "P", "G">>>>,
     <<<<"s", "e", "l", "e", "c", "t", "o", "r", "_", "f", "u", "e", "l", "_", "c", "n", "g">>,
       <<"C", "N", "G">>>>}

\* dict.get(key, default) on a map of texts; a key that is no text is not
\* in the map
MapGet(map, key, default) ==
    IF key.t = "str" /\ \E p \in map : p[1] = key.v
    THEN (CHOOSE p \in map : p[1] = key.v)[2]
    ELSE default

\* car.get(key, {}): the nested block
Block(car, key) == GetOr(car.v, key, PyDict(EmptyDict))

\* a statement of extract_car_info raises: car or a nested block is no
\* dict and has no get (AttributeError), or gearbox or fuel is a dict or a
\* list and cannot be looked up in the map (TypeError)
ExtractRaises(car) ==
    \/ ~IsDict(car)
    \/ \E b \in {"mainData", "price", "metaData", "driveSuspension", "consumption",
                 "engineData", "environmentEmissions"} : ~IsDict(Block(car, b))
    \/ GetOr(Block(car, "driveSuspension").v, "gearbox", PyStr(Unknown)).t
          \in {"dict", "list"}
    \/ GetOr(Block(car, "consumption").v, "fuel", PyStr(Unknown)).t
          \in {"dict", "list"}

\* get_vehicle_image_url(car_id, image_id), car_id a non-empty text
get_vehicle_image_url(car_id, image_id) ==
    LET safe_car_id == sanitize_string(PyStr(car_id), 50)
    IN  IF Truthy(image_id)
        THEN IMAGE_PREFIX \o safe_car_id \o <<"/">> \o sanitize_string(image_id, 50)
        ELSE IMAGE_PREFIX \o safe_car_id \o <<"/", "d", "e", "f", "a", "u", "l", "t">>

get_transmission_type(car) ==
    LET gearbox == GetOr(Block(car, "driveSuspension").v, "gearbox", PyStr(Unknown))
    IN  sanitize_string(PyStr(MapGet(transmission_map, gearbox, Unknown)), 500)

\* a fuel type that falls back to "Unknown"
FuelOrUnknown(car) ==
    LET fuel == GetOr(Block(car, "consumption").v, "fuel", PyStr(Unknown))
    IN  sanitize_string(PyStr(MapGet(fuel_map, fuel, Unknown)), 500)

get_fuel_type(car) ==
    LET fuel == GetOr(Block(car, "consumption").v, "fuel", PyStr(Unknown))
    IN  sanitize_string(PyStr(MapGet(fuel_map, fuel, <<"H", "y", "b", "r", "i", "d">>)), 500)

get_power_data(car) ==
    LET engine_data == Block(car, "engineData").v
        power_kw == sanitize_number(GetOr(engine_data, "powerKW", PyInt(0)), PyInt(0))
        power_ps == sanitize_number(GetOr(engine_data, "powerPS", PyInt(0)), PyInt(0))
    IN  IF Truthy(power_kw) /\ Truthy(power_ps)
        THEN PyToStr(power_kw) \o <<" ", "K", "W", " ", "(">> \o PyToStr(power_ps) \o <<" ", "P", "S", ")">>
        ELSE Unknown

get_co2_emission(car) ==
    LET co2 == sanitize_number(
                   GetOr(Block(car, "environmentEmissions").v, "co2", PyInt(0)), PyInt(0))
    IN  IF Truthy(co2) /\ co2.v > 0 THEN PyToStr(co2) \o <<" ", "g", "/", "k", "m">> ELSE Unknown

get_combined_consumption(car) ==
    LET combined == sanitize_number(
                        GetOr(Block(car, "consumption").v, "consumptionCombined", PyInt(0)),
                        PyInt(0))
    IN  IF Truthy(combined) /\ combined.v > 0 THEN PyToStr(combined) \o <<" ", "L", "/", "1", "0", "0", "k", "m">> ELSE Unknown

\* if not car_id
HasNoId(car_id) == ~Truthy(car_id)

\* the dictionary extract_car_info builds, for a car that passes its tests
CarInfoOf(car) ==
    LET car_id == sanitize_string(Get(car.v, "_id"), 50)
        main_data == Block(car, "mainData").v
        make == sanitize_string(GetOr(main_data, "make", PyStr(Unknown)), 500)
        model == sanitize_string(GetOr(main_data, "model", PyStr(Unknown)), 500)
        sub_model == sanitize_string(GetOr(main_data, "subModel", PyStr(<<>>)), 500)
        model_marka == IF sub_model # <<>> /\ sub_model # Unknown
                       THEN make \o <<" ">> \o model \o <<" ">> \o sub_model
                       ELSE make \o <<" ">> \o model
        price == sanitize_number(
                     GetOr(Block(car, "price").v, "currentSalesPrice", PyInt(0)), PyInt(0))
        first_registration_year ==
            sanitize_number(GetOr(main_data, "firstRegistrationYear", PyInt(0)), PyInt(0))
        main_image_id == Get(Block(car, "metaData").v, "mainImageId")
        mileage == sanitize_number(GetOr(main_data, "mileage", PyInt(0)), PyInt(0))
    IN  ("ID" :> PyStr(car_id))
        @@ ("Model and Make" :> PyStr(model_marka))
        @@ ("Price" :> price)
        @@ ("Link" :> PyStr(LINK_PREFIX \o car_id))
        @@ ("Image" :> PyStr(get_vehicle_image_url(car_id, main_image_id)))
        @@ ("Company" :> PyStr(<<"a", "u", "t", "o", "d", "e">>))
        @@ ("Transmission" :> PyStr(get_transmission_type(car)))
        @@ ("Features" :>
               (("mileage_road" :> mileage)
                @@ ("calendar" :> first_registration_year)
                @@ ("gas_pump" :> PyStr(get_fuel_type(car)))
                @@ ("speedometer" :> PyStr(get_power_data(car)))
                @@ ("water_drop" :> PyStr(get_combined_consumption(car)))
                @@ ("leaf" :> PyStr(get_co2_emission(car)))))

\* AutoDEBot.extract_car_info: None for a car without id and for a car
\* whose extraction raises
extract_car_info(car) ==
    IF ~IsDict(car) THEN Absent
    ELSE IF HasNoId(Get(car.v, "_id")) THEN Absent
    ELSE IF ExtractRaises(car) THEN Absent
    ELSE CarInfoOf(car)

(***************************************************************************)
(* The bot: AutoDEBot (src/auto_de_bot.py:51-447) and main, with           *)
(* find_endpoint, send_error_to_telegram and check_robots_txt              *)
(* (src/common.py:150-237, 396-422).                                       *)
(*                                                                         *)
(* A call of the requests library returns, raises a RequestException (or   *)
(* one of its subclasses), or raises an Exception of another class (an     *)
(* OSError for an unreadable CA bundle, a ValueError), which the handlers   *)
(* written "except requests.exceptions.RequestException" do not catch.     *)
(***************************************************************************)
\* the arguments of the three decorated functions: fetch_page_data
\* (3, 2, 2), find_endpoint and send_telegram_message (3, 2, default 2)
DECORATOR == [max_retries |-> 3, delay |-> 2, backoff |-> 2]

\* run: time.sleep(60) after a critical error
CRASH_WAIT == 60

\* the event joins the history of the last two network events
Push(event) == <<net[2], event>>

\* the wrapper's frame is left: its caller has the value or the Exception
wrapper_leave ==
    /\ rt_pc' = "idle"
    /\ retries' = 0
    /\ current_delay' = 0
    /\ rt_value' = "None"
    /\ rt_error' = "none"
    /\ op_log' = <<>>
    /\ sleeps' = <<>>
    /\ UNCHANGED <<max_retries, delay, backoff>>

\* where the function under the wrapper stands after an invocation with
\* this outcome: at its start again when the wrapper retries it
AfterAttempt(outcome) ==
    IF outcome.kind = "fail" /\ ~GivesUp(retries + 1, max_retries)
    THEN "body" ELSE "none"

InCall == {"discover", "notify_check", "notify_cycle", "notify_run", "notify_main"}
Ended == {"stopped", "exited"}

\* AutoDEBot.signal_handler
signal_handler ==
    /\ running
    /\ pc \notin Ended
    /\ running' = FALSE
    /\ shutdown_at' = [pc |-> pc, runs |-> stats.total_runs]
    /\ UNCHANGED <<clock, stats, pc, fn_pc, page, total_processed, net, attempted,
                   evictions, reports, credentials, stats0,
                   storeVars, limiterVars, retryVars, pageVars, pureVars>>

\* run: the while condition holds and run_cycle starts; check_new_listings
\* begins
run_cycle_start ==
    /\ pc = "loop"
    /\ running
    /\ stats.total_runs < MaxCycles
    /\ stats' = [stats EXCEPT !.total_runs = @ + 1]
    /\ stats0' = stats
    /\ total_processed' = 0
    /\ page' = 1
    /\ attempted' = <<>>
    /\ evictions' = 0
    /\ reports' = <<>>
    /\ pc' = IF CHECK_ROBOTS_TXT THEN "robots" ELSE "page"
    /\ UNCHANGED <<clock, running, fn_pc, net, credentials, shutdown_at,
                   storeVars, limiterVars, retryVars, pageVars, pureVars>>

\* run: the while condition fails
run_stop ==
    /\ pc = "loop"
    /\ ~running
    /\ pc' = "stopped"
    /\ UNCHANGED <<clock, running, stats, fn_pc, page, total_processed, net,
                   attempted, evictions, reports, credentials, stats0, shutdown_at,
                   storeVars, limiterVars, retryVars, pageVars, pureVars>>

\* check_robots_txt: the GET of /robots.txt.  A disallowing file, any other
\* answer and a RequestException all let the check go on to the pages; an
\* Exception of another class leaves check_robots_txt and lands in the
\* outer handler of check_new_listings, which reports it
check_robots_txt ==
    /\ pc = "robots"
    /\ net' = Push("GET robots.txt")
    /\ \E outcome \in {"disallow", "allow", "RequestException", "Exception"} :
          IF outcome = "Exception"
          THEN /\ pc' = "notify_check"
               /\ reports' = Append(reports, "check_new_listings")
          ELSE /\ pc' = "page"
               /\ UNCHANGED reports
    /\ UNCHANGED <<clock, running, stats, fn_pc, page, total_processed, attempted,
                   evictions, credentials, stats0, shutdown_at,
                   storeVars, limiterVars, retryVars, pageVars, pureVars>>

\* check_new_listings calls find_endpoint for the page: the wrapper is
\* entered
find_endpoint_enter ==
    /\ pc = "page"
    /\ page <= MAX_PAGES
    /\ wrapper_enter
    /\ pc' = "discover"
    /\ fn_pc' = "body"
    /\ attempted' = Append(attempted, [page |-> page, result |-> "pending"])
    /\ UNCHANGED <<running, stats, page, total_processed, net, evictions, reports,
                   credentials, stats0, shutdown_at,
                   storeVars, limiterVars, pageVars, pureVars>>

\* find_endpoint, up to its request: rate_limiter.wait_if_needed()
find_endpoint_acquire ==
    /\ pc = "discover"
    /\ fn_pc = "body"
    /\ wait_if_needed
    /\ net' = Push("acquire")
    /\ fn_pc' = "request"
    /\ UNCHANGED <<running, stats, pc, page, total_processed, attempted, evictions,
                   reports, credentials, stats0, shutdown_at,
                   storeVars, retryVars, pageVars, pureVars>>

\* find_endpoint, from its request on: the GET of the search page.  The
\* answer is parsed into no endpoint and a RequestException returns [] too;
\* an Exception of another class goes to the wrapper, which retries
DiscoverResult(outcome) ==
    IF outcome = "Exception" THEN [kind |-> "fail", err |-> "Exception"]
    ELSE [kind |-> "ok", value |-> "[]"]

find_endpoint ==
    /\ pc = "discover"
    /\ fn_pc = "request"
    /\ net' = Push("GET search page")
    /\ \E outcome \in {"ok", "Timeout", "SSLError", "RequestException", "Exception"} :
          /\ wrapper_attempt(DiscoverResult(outcome))
          /\ fn_pc' = AfterAttempt(DiscoverResult(outcome))
    /\ UNCHANGED <<running, stats, pc, page, total_processed, attempted, evictions,
                   reports, credentials, stats0, shutdown_at,
                   storeVars, limiterVars, pageVars, pureVars>>

\* a page handler that gives up the remaining pages on an Exception
NextPageAborting(p, raised) == IF raised THEN MAX_PAGES + 1 ELSE p + 1

\* the for loop after a page: "if not endpoints: continue" and "except
\* Exception: continue" both go on with the next page
NextPage(p, raised) == p + 1

\* check_new_listings has the result of find_endpoint: the empty list, or
\* the Exception the wrapper raised after its last attempt
check_new_listings_page ==
    /\ pc = "discover"
    /\ rt_pc \in {"returned", "raised"}
    /\ attempted' = [attempted EXCEPT ![Len(attempted)].result =
                        IF rt_pc = "raised" THEN "raised" ELSE "empty"]
    /\ page' = NextPage(page, rt_pc = "raised")
    /\ pc' = "page"
    /\ wrapper_leave
    /\ UNCHANGED <<clock, running, stats, fn_pc, total_processed, net, evictions,
                   reports, credentials, stats0, shutdown_at,
                   storeVars, limiterVars, pageVars, pureVars>>

\* a check that returns False when its pages yielded no car
check_new_listings_none ==
    /\ pc = "page"
    /\ page > MAX_PAGES
    /\ stats' = IF total_processed = 0
                THEN [stats EXCEPT !.failed_runs = @ + 1]
                ELSE [stats EXCEPT !.cars_processed = @ + total_processed,
                                   !.successful_runs = @ + 1]
    /\ pc' = "cleanup"
    /\ UNCHANGED <<clock, running, fn_pc, page, total_processed, net, attempted,
                   evictions, reports, credentials, stats0, shutdown_at,
                   storeVars, limiterVars, retryVars, pageVars, pureVars>>

\* check_new_listings after the last page returns True, and run_cycle
\* counts a successful run
check_new_listings_done ==
    /\ pc = "page"
    /\ page > MAX_PAGES
    /\ stats' = [stats EXCEPT !.cars_processed = @ + total_processed,
                              !.successful_runs = @ + 1]
    /\ pc' = "cleanup"
    /\ UNCHANGED <<clock, running, fn_pc, page, total_processed, net, attempted,
                   evictions, reports, credentials, stats0, shutdown_at,
                   storeVars, limiterVars, retryVars, pageVars, pureVars>>

\* AutoDEBot.cleanup_old_listings
cleanup_old_listings ==
    /\ pc = "cleanup"
    /\ delete_old_cars(DELETE_OLD_CARS_DAYS)
    /\ evictions' = evictions + 1
    /\ pc' = "sleep"
    /\ UNCHANGED <<clock, tz, running, stats, fn_pc, page, total_processed, net,
                   attempted, reports, credentials, stats0, shutdown_at,
                   limiterVars, retryVars, pageVars, pureVars>>

\* run, after run_cycle: time.sleep(MAIN_LOOP_INTERVAL) if still running
run_sleep ==
    /\ pc = "sleep"
    /\ clock' = IF running THEN clock + MAIN_LOOP_INTERVAL ELSE clock
    /\ pc' = "loop"
    /\ UNCHANGED <<running, stats, fn_pc, page, total_processed, net, attempted,
                   evictions, reports, credentials, stats0, shutdown_at,
                   storeVars, limiterVars, retryVars, pageVars, pureVars>>

\* send_error_to_telegram calls send_telegram_message: the wrapper is
\* entered
send_telegram_enter ==
    /\ pc \in InCall \ {"discover"}
    /\ rt_pc = "idle"
    /\ wrapper_enter
    /\ fn_pc' = "body"
    /\ UNCHANGED <<running, stats, pc, page, total_processed, net, attempted,
                   evictions, reports, credentials, stats0, shutdown_at,
                   storeVars, limiterVars, pageVars, pureVars>>

\* send_telegram_message without credentials: return False, no request
send_telegram_skip ==
    /\ pc \in InCall \ {"discover"}
    /\ fn_pc = "body"
    /\ ~credentials
    /\ wrapper_attempt([kind |-> "ok", value |-> "False"])
    /\ fn_pc' = "none"
    /\ UNCHANGED <<running, stats, pc, page, total_processed, net, attempted,
                   evictions, reports, credentials, stats0, shutdown_at,
                   storeVars, limiterVars, pageVars, pureVars>>

\* send_telegram_message, up to its request: rate_limiter.wait_if_needed()
send_telegram_acquire ==
    /\ pc \in InCall \ {"discover"}
    /\ fn_pc = "body"
    /\ credentials
    /\ wait_if_needed
    /\ net' = Push("acquire")
    /\ fn_pc' = "request"
    /\ UNCHANGED <<running, stats, pc, page, total_processed, attempted, evictions,
                   reports, credentials, stats0, shutdown_at,
                   storeVars, retryVars, pageVars, pureVars>>

\* send_telegram_message, from its request on: the POST returns True, a
\* RequestException returns False, an Exception of another class goes to
\* the wrapper, which retries
PostResult(outcome) ==
    CASE outcome = "ok" -> [kind |-> "ok", value |-> "True"]
      [] outcome = "RequestException" -> [kind |-> "ok", value |-> "False"]
      [] OTHER -> [kind |-> "fail", err |-> "Exception"]

send_telegram_message ==
    /\ pc \in InCall \ {"discover"}
    /\ fn_pc = "request"
    /\ net' = Push("POST sendMessage")
    /\ \E outcome \in {"ok", "RequestException", "Exception"} :
          /\ wrapper_attempt(PostResult(outcome))
          /\ fn_pc' = AfterAttempt(PostResult(outcome))
    /\ UNCHANGED <<running, stats, pc, page, total_processed, attempted, evictions,
                   reports, credentials, stats0, shutdown_at,
                   storeVars, limiterVars, pageVars, pureVars>>

\* a handler of run_cycle that counts an error and no failed run
check_new_listings_uncounted ==
    /\ pc = "notify_check"
    /\ rt_pc \in {"returned", "raised"}
    /\ IF rt_pc = "returned"
       THEN /\ stats' = [stats EXCEPT !.failed_runs = @ + 1]
            /\ pc' = "cleanup"
            /\ UNCHANGED reports
       ELSE /\ stats' = [stats EXCEPT !.errors = @ + 1]
            /\ pc' = "notify_cycle"
            /\ reports' = Append(reports, "run_cycle")
    /\ wrapper_leave
    /\ UNCHANGED <<clock, running, fn_pc, page, total_processed, net, attempted,
                   evictions, credentials, stats0, shutdown_at,
                   storeVars, limiterVars, pageVars, pureVars>>

\* the handler of check_new_listings after its report: return False, and
\* run_cycle counts a failed run; or the report raised, and the handler of
\* run_cycle counts a failed run and an error and reports in its turn
check_new_listings_failed ==
    /\ pc = "notify_check"
    /\ rt_pc \in {"returned", "raised"}
    /\ IF rt_pc = "returned"
       THEN /\ stats' = [stats EXCEPT !.failed_runs = @ + 1]
            /\ pc' = "cleanup"
            /\ UNCHANGED reports
       ELSE /\ stats' = [stats EXCEPT !.failed_runs = @ + 1, !.errors = @ + 1]
            /\ pc' = "notify_cycle"
            /\ reports' = Append(reports, "run_cycle")
    /\ wrapper_leave
    /\ UNCHANGED <<clock, running, fn_pc, page, total_processed, net, attempted,
                   evictions, credentials, stats0, shutdown_at,
                   storeVars, limiterVars, pageVars, pureVars>>

\* the handler of run_cycle after its report: run_cycle is over; or the
\* report raised, and the handler of run reports in its turn
run_cycle_failed ==
    /\ pc = "notify_cycle"
    /\ rt_pc \in {"returned", "raised"}
    /\ IF rt_pc = "returned"
       THEN /\ pc' = "sleep"
            /\ UNCHANGED reports
       ELSE /\ pc' = "notify_run"
            /\ reports' = Append(reports, "run")
    /\ wrapper_leave
    /\ UNCHANGED <<clock, running, stats, fn_pc, page, total_processed, net,
                   attempted, evictions, credentials, stats0, shutdown_at,
                   storeVars, limiterVars, pageVars, pureVars>>

\* the handler of run after its report: time.sleep(60) if still running,
\* and the loop again; or the report raised, the Exception leaves run, and
\* the handler of main reports in its turn
run_failed ==
    /\ pc = "notify_run"
    /\ rt_pc \in {"returned", "raised"}
    /\ IF rt_pc = "returned"
       THEN /\ clock' = IF running THEN clock + CRASH_WAIT ELSE clock
            /\ pc' = "loop"
            /\ UNCHANGED reports
       ELSE /\ pc' = "notify_main"
            /\ reports' = Append(reports, "main")
            /\ UNCHANGED clock
    /\ wrapper_leave
    /\ UNCHANGED <<running, stats, fn_pc, page, total_processed, net, attempted,
                   evictions, credentials, stats0, shutdown_at,
                   storeVars, limiterVars, pageVars, pureVars>>

\* the handler of main after its report: sys.exit(1); a report that raised
\* ends the process too
main_failed ==
    /\ pc = "notify_main"
    /\ rt_pc \in {"returned", "raised"}
    /\ pc' = "exited"
    /\ wrapper_leave
    /\ UNCHANGED <<clock, running, stats, fn_pc, page, total_processed, net,
                   attempted, evictions, reports, credentials, stats0, shutdown_at,
                   storeVars, limiterVars, pageVars, pureVars>>

(***************************************************************************)
(* AutoDEBot.process_listing_page and fetch_page_data                      *)
(* (src/auto_de_bot.py:78-128, 268-304).                                   *)
(***************************************************************************)
\* process_listing_page(endpoint) is called: it calls fetch_page_data, and
\* the wrapper is entered
process_listing_page_call ==
    /\ pl_pc = "idle"
    /\ wrapper_enter
    /\ pl_pc' = "fetch"
    /\ fn_pc' = "body"
    /\ UNCHANGED <<running, stats, pc, page, total_processed, net, attempted,
                   evictions, reports, credentials, stats0, shutdown_at,
                   data, car_listings, processed_count, pl_ret, batch_log,
                   storeVars, limiterVars, pureVars>>

\* fetch_page_data, up to its request: rate_limiter.wait_if_needed()
fetch_page_data_acquire ==
    /\ pl_pc = "fetch"
    /\ fn_pc = "body"
    /\ wait_if_needed
    /\ net' = Push("acquire")
    /\ fn_pc' = "request"
    /\ UNCHANGED <<running, stats, pc, page, total_processed, attempted, evictions,
                   reports, credentials, stats0, shutdown_at,
                   storeVars, retryVars, pageVars, pureVars>>

\* what an attempt of fetch_page_data meets: a decoded body, a body that
\* is no JSON (ValueError), or an Exception of requests.get or
\* raise_for_status
FetchFailures == {"Timeout", "SSLError", "HTTPError", "RequestException", "Exception"}

\* the ValueError of response.json() is caught inside and None returned;
\* every other failure is logged and raised again, or not caught at all
FetchResult(outcome) ==
    CASE outcome.kind = "body" -> [kind |-> "ok", value |-> "data"]
      [] outcome.kind = "ValueError" -> [kind |-> "ok", value |-> "None"]
      [] OTHER -> [kind |-> "fail", err |-> outcome.kind]

\* fetch_page_data, from its request on
fetch_page_data(outcome) ==
    /\ pl_pc = "fetch"
    /\ fn_pc = "request"
    /\ net' = Push("GET endpoint")
    /\ wrapper_attempt(FetchResult(outcome))
    /\ fn_pc' = AfterAttempt(FetchResult(outcome))
    /\ data' = IF outcome.kind = "body" THEN outcome.body ELSE PyNone
    /\ UNCHANGED <<running, stats, pc, page, total_processed, attempted, evictions,
                   reports, credentials, stats0, shutdown_at,
                   pl_pc, car_listings, processed_count, pl_ret, batch_log,
                   storeVars, limiterVars, pureVars>>

\* data.get('data', []) of a body that is a dict
ListingsOf(body) == GetOr(body.v, "data", PyList(<<>>))

\* process_listing_page returns 0 before its loop: the wrapper raised, the
\* data is falsy, the data is no dict (AttributeError, caught), or its
\* 'data' is no list
NoListings(raised, body) ==
    \/ raised
    \/ ~Truthy(body)
    \/ ~IsDict(body)
    \/ ListingsOf(body).t # "list"

\* process_listing_page has the result of fetch_page_data
process_listing_page_data ==
    /\ pl_pc = "fetch"
    /\ rt_pc \in {"returned", "raised"}
    /\ IF NoListings(rt_pc = "raised", data)
       THEN /\ pl_ret' = 0
            /\ pl_pc' = "returned"
            /\ UNCHANGED <<car_listings, processed_count>>
       ELSE /\ car_listings' = ListingsOf(data).v
            /\ processed_count' = 0
            /\ pl_pc' = "cars"
            /\ UNCHANGED pl_ret
    /\ wrapper_leave
    /\ UNCHANGED <<clock, cycleVars, data, batch_log, storeVars, limiterVars, pureVars>>

\* for car in car_listings: the listings after this one
Rest(listings, car_info) == Tail(listings)

\* if insert_car_to_database(car_info, BOT_NAME): processed_count += 1
Counted(count, inserted) == IF inserted THEN count + 1 ELSE count

\* one pass of the for loop: extract_car_info, and insert_car for a car
\* that has a car_info; an Exception that leaves insert_car ends the loop
\* in the handler of process_listing_page, which returns 0
process_car ==
    /\ pl_pc = "cars"
    /\ car_listings # <<>>
    /\ LET car == Head(car_listings)
           car_info == extract_car_info(car)
       IN  IF car_info = Absent
           THEN /\ car_listings' = Rest(car_listings, car_info)
                /\ batch_log' = Append(batch_log, [car |-> car, fate |-> "absent"])
                /\ UNCHANGED <<processed_count, pl_pc, pl_ret,
                               cars, first_insert, last_info, store_op>>
           ELSE /\ insert_car(car_info)
                /\ IF store_op'.raised
                   THEN /\ pl_ret' = 0
                        /\ pl_pc' = "returned"
                        /\ batch_log' = Append(batch_log, [car |-> car, fate |-> "raised"])
                        /\ UNCHANGED <<car_listings, processed_count>>
                   ELSE /\ car_listings' = Rest(car_listings, car_info)
                        /\ processed_count' = Counted(processed_count, store_op'.ret)
                        /\ batch_log' = Append(batch_log,
                              [car |-> car,
                               fate |-> IF store_op'.ret THEN "inserted" ELSE "fault"])
                        /\ UNCHANGED <<pl_pc, pl_ret>>
    /\ UNCHANGED <<clock, tz, cycleVars, data, limiterVars, retryVars, pureVars>>

\* the for loop is over: return processed_count
process_listing_page_return ==
    /\ pl_pc = "cars"
    /\ car_listings = <<>>
    /\ pl_ret' = processed_count
    /\ pl_pc' = "returned"
    /\ UNCHANGED <<clock, cycleVars, data, car_listings, processed_count, batch_log,
                   storeVars, limiterVars, retryVars, pureVars>>

(***************************************************************************)
(* The specifications: one per component, the other components at rest.    *)
(***************************************************************************)
\* time passes
Tick ==
    /\ clock < MaxClock
    /\ clock' = clock + 1

IdleLimiter ==
    /\ max_requests = 1
    /\ time_window = 1
    /\ requests = <<>>
    /\ issued = <<>>
    /\ rl_op = [called |-> FALSE]

IdleRetry ==
    /\ max_retries = 0
    /\ delay = 0
    /\ backoff = 0
    /\ retries = 0
    /\ current_delay = 0
    /\ rt_pc = "idle"
    /\ rt_value = "None"
    /\ rt_error = "none"
    /\ op_log = <<>>
    /\ sleeps = <<>>

IdleCycle ==
    /\ running = TRUE
    /\ stats = [total_runs |-> 0, successful_runs |-> 0, failed_runs |-> 0,
                cars_processed |-> 0, errors |-> 0]
    /\ pc = "loop"
    /\ fn_pc = "none"
    /\ page = 1
    /\ total_processed = 0
    /\ net = <<"none", "none">>
    /\ attempted = <<>>
    /\ evictions = 0
    /\ reports = <<>>
    /\ credentials = FALSE
    /\ stats0 = stats
    /\ shutdown_at = [pc |-> "none", runs |-> 0]

IdlePage ==
    /\ pl_pc = "idle"
    /\ data = PyNone
    /\ car_listings = <<>>
    /\ processed_count = 0
    /\ pl_ret = 0
    /\ batch_log = <<>>

IdlePure ==
    /\ arg_value = PyNone
    /\ arg_length = 0
    /\ arg_default = PyInt(0)
    /\ out_text = <<>>
    /\ out_number = PyNone
    /\ applied = FALSE

IdleStore ==
    /\ tz = 0
    /\ cars = {}
    /\ first_insert = [k \in StoredIds |-> NoTime]
    /\ last_info = [k \in StoredIds |-> NoInfo]
    /\ store_op = [op |-> "none"]

InitStore ==
    /\ clock = 0
    /\ IdleLimiter
    /\ IdleRetry
    /\ IdleCycle
    /\ IdlePage
    /\ IdlePure
    /\ tz \in TzOffsets
    /\ cars = {}
    /\ first_insert = [k \in StoredIds |-> NoTime]
    /\ last_info = [k \in StoredIds |-> NoInfo]
    /\ store_op = [op |-> "none"]

Upsert ==
    \E car_info \in CarInfos :
        insert_car(car_info) /\ UNCHANGED <<clock, tz, limiterVars, retryVars, botVars>>

Evict ==
    \E days \in 0..MaxDays :
        delete_old_cars(days) /\ UNCHANGED <<clock, tz, limiterVars, retryVars, botVars>>

StoreTick == Tick /\ UNCHANGED <<storeVars, limiterVars, retryVars, botVars>>

NextStore == Upsert \/ Evict \/ StoreTick

SpecStore == InitStore /\ [][NextStore]_vars

InitLimiter ==
    /\ clock = 0
    /\ max_requests \in 1..MaxRequests
    /\ time_window \in 1..MaxWindow
    /\ requests = <<>>
    /\ issued = <<>>
    /\ rl_op = [called |-> FALSE]
    /\ IdleStore
    /\ IdleRetry
    /\ IdleCycle
    /\ IdlePage
    /\ IdlePure

Acquire ==
    /\ clock <= MaxClock
    /\ wait_if_needed
    /\ UNCHANGED <<storeVars, retryVars, botVars>>

LimiterTick ==
    /\ Tick
    /\ issued' = Prune(issued, clock', time_window)
    /\ UNCHANGED <<max_requests, time_window, requests, rl_op, storeVars,
                   retryVars, botVars>>

NextLimiter == Acquire \/ LimiterTick

SpecLimiter == InitLimiter /\ [][NextLimiter]_vars

InitRetry ==
    /\ clock = 0
    /\ max_retries \in 0..MaxAttempts
    /\ delay \in 1..MaxDelay
    /\ backoff \in 1..MaxBackoff
    /\ retries = 0
    /\ current_delay = 0
    /\ rt_pc = "idle"
    /\ rt_value = "None"
    /\ rt_error = "none"
    /\ op_log = <<>>
    /\ sleeps = <<>>
    /\ IdleStore
    /\ IdleLimiter
    /\ IdleCycle
    /\ IdlePage
    /\ IdlePure

Enter == wrapper_enter /\ UNCHANGED <<storeVars, limiterVars, botVars>>

Attempt ==
    \E outcome \in Outcomes :
        wrapper_attempt(outcome) /\ UNCHANGED <<storeVars, limiterVars, botVars>>

Exit == wrapper_exit /\ UNCHANGED <<storeVars, limiterVars, botVars>>

NextRetry == Enter \/ Attempt \/ Exit

SpecRetry == InitRetry /\ [][NextRetry]_vars

\* the wrapper at rest, with the arguments of the bot's decorators
DecoratedRetry ==
    /\ max_retries = DECORATOR.max_retries
    /\ delay = DECORATOR.delay
    /\ backoff = DECORATOR.backoff
    /\ retries = 0
    /\ current_delay = 0
    /\ rt_pc = "idle"
    /\ rt_value = "None"
    /\ rt_error = "none"
    /\ op_log = <<>>
    /\ sleeps = <<>>

\* the bot as shipped: the database file is new, the host's time zone any,
\* the Telegram credentials configured or not, and the limiter's two
\* arguments stand for the 10 requests and 60 seconds of the module's
\* instance
\* the database file is new, or holds a row that an earlier run of the bot
\* stored
InitCycle ==
    /\ clock = 0
    /\ tz \in TzOffsets
    /\ cars \in {{}, {NewRow(CarInfoFull(<<"a">>, "x", 1))}}
    /\ first_insert = [k \in StoredIds |-> IF HasRow(cars, k) THEN clock ELSE NoTime]
    /\ last_info = [k \in StoredIds |->
                       IF HasRow(cars, k) THEN CarInfoFull(<<"a">>, "x", 1) ELSE NoInfo]
    /\ store_op = [op |-> "none"]
    /\ max_requests = MaxRequests
    /\ time_window = MaxWindow
    /\ requests = <<>>
    /\ issued = <<>>
    /\ rl_op = [called |-> FALSE]
    /\ DecoratedRetry
    /\ running = TRUE
    /\ stats = [total_runs |-> 0, successful_runs |-> 0, failed_runs |-> 0,
                cars_processed |-> 0, errors |-> 0]
    /\ pc = "loop"
    /\ fn_pc = "none"
    /\ page = 1
    /\ total_processed = 0
    /\ net = <<"none", "none">>
    /\ attempted = <<>>
    /\ evictions = 0
    /\ reports = <<>>
    /\ credentials \in BOOLEAN
    /\ stats0 = stats
    /\ shutdown_at = [pc |-> "none", runs |-> 0]
    /\ IdlePage
    /\ IdlePure

NextCycle ==
    \/ signal_handler
    \/ run_cycle_start
    \/ run_stop
    \/ check_robots_txt
    \/ find_endpoint_enter
    \/ find_endpoint_acquire
    \/ find_endpoint
    \/ check_new_listings_page
    \/ check_new_listings_done
    \/ cleanup_old_listings
    \/ run_sleep
    \/ send_telegram_enter
    \/ send_telegram_skip
    \/ send_telegram_acquire
    \/ send_telegram_message
    \/ check_new_listings_failed
    \/ run_cycle_failed
    \/ run_failed
    \/ main_failed

SpecCycle == InitCycle /\ [][NextCycle]_vars

\* the values handed to the sanitizers: None, numbers, and every text of
\* up to MaxLen characters over letters, whitespace, blacklisted and
\* numeric characters
Alphabet == {"a", " ", "<", "'", "-", ".", "1"}
Texts == UNION {[1..k -> Alphabet] : k \in 0..MaxLen}
Values ==
    {PyNone, PyInt(0), PyInt(12), PyInt(0 - 3), PyFloat(15, 1), PyFloat(0 - 5, 1)}
    \cup {PyStr(s) : s \in Texts}

InitSanitize ==
    /\ clock = 0
    /\ arg_value \in Values
    /\ arg_length \in 0..(MaxLen + 1)
    /\ arg_default \in {PyInt(0), PyInt(7)}
    /\ out_text = <<>>
    /\ out_number = PyNone
    /\ applied = FALSE
    /\ IdleStore
    /\ IdleLimiter
    /\ IdleRetry
    /\ IdleCycle
    /\ IdlePage

\* sanitize_string(value, max_length) and sanitize_number(value, default)
Sanitize ==
    /\ ~applied
    /\ out_text' = sanitize_string(arg_value, arg_length)
    /\ out_number' = sanitize_number(arg_value, arg_default)
    /\ applied' = TRUE
    /\ UNCHANGED <<clock, arg_value, arg_length, arg_default, storeVars, limiterVars, retryVars,
                   cycleVars, pageVars>>

NextSanitize == Sanitize

SpecSanitize == InitSanitize /\ [][NextSanitize]_vars

\* the raw listings of a page: a full one, one with an id only, ones
\* without a usable id, ones with negative numbers, ones whose
\* extraction raises, and one that cursor.execute cannot bind
RawCars ==
    { PyDict(("_id" :> PyStr(<<"a">>))
             @@ ("mainData" :>
                    PyDict(("make" :> PyStr(<<"x">>)) @@ ("model" :> PyStr(<<"y">>))
                           @@ ("mileage" :> PyInt(5))
                           @@ ("firstRegistrationYear" :> PyInt(2))))
             @@ ("price" :> PyDict("currentSalesPrice" :> PyInt(7)))),
      PyDict("_id" :> PyStr(<<"b">>)),
      PyDict("mainData" :> PyDict(EmptyDict)),
      PyDict("_id" :> PyStr(<<>>)),
      PyDict("_id" :> PyStr(<<" ">>)),
      PyDict("_id" :> PyStr(<<"<">>)),
      PyDict(("_id" :> PyStr(<<"a">>))
             @@ ("mainData" :> PyDict("mileage" :> PyStr(<<"-", "3">>)))
             @@ ("price" :> PyDict("currentSalesPrice" :> PyInt(0 - 5)))),
      PyDict(("_id" :> PyStr(<<"c">>)) @@ ("mainData" :> PyNone)),
      PyDict(("_id" :> PyStr(<<"d">>))
             @@ ("mainData" :> PyDict("make" :> PyStr(<<SURROGATE>>)))),
      PyNone }

Batches == UNION {[1..k -> RawCars] : k \in 0..MaxBatch}

\* the decoded bodies: a dict with a list of listings, an empty dict, a
\* dict whose 'data' is no list, a dict without 'data', a list
Bodies ==
    {PyDict("data" :> PyList(b)) : b \in Batches}
    \cup {PyDict(EmptyDict), PyDict("data" :> PyNone), PyDict("total" :> PyInt(0)),
          PyList(<<PyInt(1)>>)}

FetchOutcomes ==
    [kind : {"body"}, body : Bodies] \cup [kind : {"ValueError"} \cup FetchFailures]

PageIds ==
    {NewRow(extract_car_info(c)).id : c \in {r \in RawCars : extract_car_info(r) # Absent}}

\* one call of process_listing_page on a new database, by a process whose
\* limiter and wrappers are at rest
InitProcess ==
    /\ clock = 0
    /\ tz = 0
    /\ cars = {}
    /\ first_insert = [k \in PageIds |-> NoTime]
    /\ last_info = [k \in PageIds |-> NoInfo]
    /\ store_op = [op |-> "none"]
    /\ max_requests = MaxRequests
    /\ time_window = MaxWindow
    /\ requests = <<>>
    /\ issued = <<>>
    /\ rl_op = [called |-> FALSE]
    /\ DecoratedRetry
    /\ IdleCycle
    /\ IdlePage
    /\ IdlePure

NextProcess ==
    \/ process_listing_page_call
    \/ fetch_page_data_acquire
    \/ \E outcome \in FetchOutcomes : fetch_page_data(outcome)
    \/ process_listing_page_data
    \/ process_car
    \/ process_listing_page_return

SpecProcess == InitProcess /\ [][NextProcess]_vars

(***************************************************************************)
(* Claims about the store.                                                 *)
(***************************************************************************)
DataColumns ==
    { "model_make", "price", "link", "image_url", "company", "transmission",
      "mileage", "first_registration", "fuel_type", "power_data",
      "co2_emission", "consumption" }

DataOf(row) == [c \in DataColumns |-> row[c]]

Retention == DELETE_OLD_CARS_DAYS * TicksPerDay

\* C1: a stored row's created_at is the time at which its id entered the
\* table, however often the id has been upserted again since.
C1_CreatedAtPreserved ==
    \A r \in cars : r.created_at = first_insert[r.id]

\* C2: the table holds at most one row per id, and every data column of the
\* row of an id holds what the most recent successful upsert of that id
\* supplied (its default when that upsert left the field out).
C2_OneRowLatestValues ==
    /\ \A r1, r2 \in cars : r1.id = r2.id => r1 = r2
    /\ \A r \in cars :
          /\ last_info[r.id] # NoInfo
          /\ DataOf(r) = DataOf(NewRow(last_info[r.id]))

\* C2's case: a successful upsert has replaced a row stored earlier under
\* the same id with other values.
C2_Witness ==
    /\ store_op.op = "insert" /\ store_op.ret
    /\ \E old \in store_op.replaced :
          /\ old.created_at < clock
          /\ old.price # NewRow(store_op.info).price
          /\ old.link # NewRow(store_op.info).link

\* C3: a delete_old_cars(days) that meets no storage fault removes exactly
\* the rows whose created_at is earlier than now - days, leaves the others
\* as they were and returns the number of rows it removed.
C3_EvictExactlyOlder ==
    (store_op.op = "delete" /\ ~store_op.fault) =>
        /\ store_op.post =
              {r \in store_op.pre :
                  ~(r.created_at < store_op.now - store_op.days * TicksPerDay)}
        /\ store_op.ret = Cardinality(store_op.pre \ store_op.post)

\* C4: on a host whose local time is UTC, after an eviction pass with the
\* configured retention no row is left whose id entered the table more than
\* the retention window before the pass, whether or not the id was upserted
\* again in between.
C4_EvictedAfterRetention ==
    (store_op.op = "delete" /\ ~store_op.fault /\ tz = 0
        /\ store_op.days = DELETE_OLD_CARS_DAYS) =>
        \A r \in cars : ~(first_insert[r.id] + Retention < store_op.now)

(***************************************************************************)
(* Claims about the rate limiter.                                          *)
(***************************************************************************)
InWindow(reqs, now) == {i \in DOMAIN reqs : now - reqs[i] < time_window}

MinOf(S) == CHOOSE x \in S : \A y \in S : x <= y

\* C5: at every instant at most max_requests calls have gone ahead within
\* the trailing time_window.
C5_RateBounded ==
    Cardinality(InWindow(issued, clock)) <= max_requests

\* C6: a call sleeps exactly when max_requests or more timestamps are
\* recorded in the trailing time_window at the time of the call.
C6_SleepsIffFull ==
    rl_op.called =>
        (rl_op.slept > 0 <=>
            Cardinality(InWindow(rl_op.pre, rl_op.now)) >= max_requests)

\* C6's case: a call found the window full and slept, with a limit above 1.
C6_Witness ==
    /\ rl_op.called /\ rl_op.slept > 0
    /\ max_requests > 1
    /\ Cardinality(InWindow(rl_op.pre, rl_op.now)) = max_requests

\* C7: a call that sleeps sleeps time_window - (now - oldest), oldest being
\* the earliest recorded timestamp still inside the window, and leaves a
\* history of one entry, the one of the call itself.
C7_SleepExactThenOneEntry ==
    (rl_op.called /\ rl_op.slept > 0) =>
        LET inside == {rl_op.pre[i] : i \in InWindow(rl_op.pre, rl_op.now)}
        IN  /\ rl_op.slept = time_window - (rl_op.now - MinOf(inside))
            /\ rl_op.post = <<rl_op.now>>

\* C7's case: a call slept while the window held timestamps of different
\* ages, and an older history was dropped.
C7_Witness ==
    /\ rl_op.called /\ rl_op.slept > 0
    /\ Len(rl_op.pre) > 1
    /\ rl_op.pre[1] < rl_op.pre[Len(rl_op.pre)]
    /\ rl_op.slept < time_window

\* C28: the timestamp a call records, the last of the history it leaves,
\* is not earlier than the time at which the call returns and its request
\* goes ahead: the time of the call plus what the call slept.
C28_RecordedWhenAllowed ==
    rl_op.called =>
        rl_op.post[Len(rl_op.post)] >= rl_op.now + rl_op.slept

(***************************************************************************)
(* Claims about the retry decorator.                                       *)
(***************************************************************************)
RECURSIVE Pow(_, _)
Pow(b, e) == IF e = 0 THEN 1 ELSE b * Pow(b, e - 1)

AllFailed(log) == \A i \in 1..Len(log) : log[i].kind = "fail"

\* C9: when func fails k times and then succeeds, k < max_retries, the
\* wrapper returns the value of the successful invocation, has invoked func
\* k + 1 times and has slept k times, delay * backoff^(i-1) the i-th time.
C9_RetryThenSuccess ==
    /\ (op_log # <<>> /\ op_log[Len(op_log)].kind = "ok") => rt_pc = "returned"
    /\ (rt_pc = "returned" /\ op_log # <<>>) =>
          LET k == Len(op_log) - 1
          IN  /\ k < max_retries
              /\ AllFailed(SubSeq(op_log, 1, k))
              /\ op_log[k + 1].kind = "ok"
              /\ rt_value = op_log[k + 1].value
              /\ sleeps = [i \in 1..k |-> delay * Pow(backoff, i - 1)]

\* C9's case: func failed twice and then succeeded, with a backoff above 1.
C9_Witness ==
    /\ rt_pc = "returned"
    /\ Len(op_log) = 3
    /\ backoff > 1
    /\ rt_value = "data"
    /\ Len(sleeps) = 2

\* C10: func is never invoked more than max_retries times; the wrapper
\* raises only after max_retries failed invocations, and then the Exception
\* of the last one; and when every invocation has failed (max_retries >= 1)
\* the wrapper ends by raising, never by returning.
C10_RaisesAfterMaxAttempts ==
    /\ Len(op_log) <= max_retries
    /\ rt_pc = "raised" =>
          /\ Len(op_log) = max_retries
          /\ AllFailed(op_log)
          /\ rt_error = op_log[Len(op_log)].err
    /\ (rt_pc \in {"returned", "raised", "interrupted"}
          /\ max_retries >= 1 /\ AllFailed(op_log)) => rt_pc = "raised"

\* C10's case: three invocations failed, with different Exceptions, and the
\* wrapper raised.
C10_Witness ==
    /\ rt_pc = "raised"
    /\ Len(op_log) = 3
    /\ op_log[1].err # op_log[3].err

(***************************************************************************)
(* Claims about the bot's requests.                                        *)
(***************************************************************************)
IsRequest(event) ==
    event \in {"GET robots.txt", "GET search page", "GET endpoint", "POST sendMessage"}

\* C8: every outbound request comes right after a call of the rate
\* limiter's wait_if_needed.
C8_RequestsFollowAcquire ==
    IsRequest(net[2]) => net[1] = "acquire"

(***************************************************************************)
(* Claims about the cycle.                                                 *)
(***************************************************************************)
\* check_new_listings has returned or raised: run_cycle knows its outcome
CheckOver ==
    pc \in {"cleanup", "sleep", "notify_cycle", "notify_run", "notify_main", "exited"}
    \/ (pc \in {"loop", "stopped"} /\ stats.total_runs > 0)

\* run_cycle has returned or raised
CycleOver ==
    pc \in {"sleep", "notify_run", "notify_main", "exited"}
    \/ (pc \in {"loop", "stopped"} /\ stats.total_runs > 0)

AllRaised(log) ==
    /\ Len(log) = MAX_PAGES
    /\ \A i \in 1..Len(log) : log[i].result = "raised"

\* C12: when find_endpoint has raised for every page of a cycle, the
\* failure has been reported to the notification sink and the cycle is
\* counted as failed and not as successful.
C12_DiscoveryFailureReported ==
    (CheckOver /\ AllRaised(attempted)) =>
        /\ reports # <<>>
        /\ stats.failed_runs = stats0.failed_runs + 1
        /\ stats.successful_runs = stats0.successful_runs

C14_EvictOncePerCycle ==
    /\ evictions <= 1
    /\ evictions = 1 => CheckOver
    /\ CycleOver => evictions = 1

\* C15: when the shutdown signal arrived while a cycle was in flight, no
\* further cycle starts, and when that cycle is over its page loop, if
\* entered, has covered every page and its eviction pass has run.
C15_ShutdownCompletesCycle ==
    (~running /\ shutdown_at.pc \notin {"loop", "sleep", "none"}) =>
        /\ stats.total_runs = shutdown_at.runs
        /\ CycleOver =>
              /\ attempted # <<>> => Len(attempted) = MAX_PAGES
              /\ evictions = 1

\* C25 as claimed: find_endpoint returns no endpoint, so a cycle makes no
\* request for an endpoint and no insert, counts no car, and the table is
\* what the last eviction pass left; every page of the cycle is skipped
\* with the warning for an empty list, and the cycle counts as successful.
C25_StubCycleSucceeds ==
    /\ net[2] # "GET endpoint"
    /\ pl_pc = "idle"
    /\ store_op.op \in {"none", "delete"}
    /\ store_op.op = "delete" => cars = store_op.post
    /\ stats.cars_processed = 0
    /\ CycleOver =>
          /\ Len(attempted) = MAX_PAGES
          /\ \A i \in 1..Len(attempted) : attempted[i].result = "empty"
          /\ stats.successful_runs = stats0.successful_runs + 1
          /\ stats.failed_runs = stats0.failed_runs

\* C25, amended: a cycle makes no request for an endpoint and no insert,
\* counts no car, and the table is what the last eviction pass left; every
\* page it attempts is skipped.  A cycle whose check_robots_txt did not
\* raise and whose discoveries all returned has skipped every page with the
\* warning for an empty list and counts as successful and not as failed; a
\* cycle whose check_robots_txt raised has attempted no page and counts as
\* failed and not as successful.
C25_StubFrame ==
    /\ net[2] # "GET endpoint"
    /\ pl_pc = "idle"
    /\ store_op.op \in {"none", "delete"}
    /\ store_op.op = "delete" => cars = store_op.post
    /\ stats.cars_processed = 0
    /\ \A i \in 1..Len(attempted) : attempted[i].result \in {"pending", "empty", "raised"}
    /\ (CycleOver /\ reports = <<>>
          /\ \A i \in 1..Len(attempted) : attempted[i].result # "raised") =>
          /\ Len(attempted) = MAX_PAGES
          /\ \A i \in 1..Len(attempted) : attempted[i].result = "empty"
          /\ stats.successful_runs = stats0.successful_runs + 1
          /\ stats.failed_runs = stats0.failed_runs
    /\ (CycleOver /\ reports # <<>>) =>
          /\ attempted = <<>>
          /\ stats.successful_runs = stats0.successful_runs
          /\ stats.failed_runs = stats0.failed_runs + 1

\* C25's case: a cycle is over in which the discovery of every page
\* returned no endpoint, which counts as successful, and whose eviction
\* pass removed the row an earlier run had stored.
C25_Witness ==
    /\ pc = "sleep"
    /\ reports = <<>>
    /\ Len(attempted) = MAX_PAGES
    /\ \A i \in 1..Len(attempted) : attempted[i].result = "empty"
    /\ store_op.op = "delete"
    /\ store_op.ret = 1
    /\ cars = {}
    /\ stats.successful_runs = stats0.successful_runs + 1

\* C26: between cycles total_runs = successful_runs + failed_runs, and a
\* cycle that is over has added one to total_runs and one to exactly one
\* of successful_runs and failed_runs, whether check_new_listings returned
\* True, returned False or raised.
C26_RunsAddUp ==
    /\ (CycleOver \/ stats.total_runs = 0) =>
          stats.total_runs = stats.successful_runs + stats.failed_runs
    /\ CycleOver =>
          /\ stats.total_runs = stats0.total_runs + 1
          /\ \/ /\ stats.successful_runs = stats0.successful_runs + 1
                /\ stats.failed_runs = stats0.failed_runs
             \/ /\ stats.successful_runs = stats0.successful_runs
                /\ stats.failed_runs = stats0.failed_runs + 1

\* C26's case: a second cycle is over whose check_new_listings raised, after
\* a first cycle that was successful.
C26_Witness ==
    /\ pc = "sleep"
    /\ Len(reports) = 2
    /\ stats.total_runs = 2
    /\ stats.successful_runs = 1
    /\ stats.failed_runs = 1
    /\ stats.errors = 1

(***************************************************************************)
(* Claims about fetching and processing a page.                            *)
(***************************************************************************)
\* the call of fetch_page_data is over
FetchOver == pl_pc = "fetch" /\ rt_pc \in {"returned", "raised"}

\* the attempt failed: it raised, or its body was no JSON
FailedAttempt(entry) ==
    entry.kind = "fail" \/ (entry.kind = "ok" /\ entry.value = "None")

\* C11: a call of fetch_page_data whose last attempt failed, whatever the
\* kind of the failure, has made max_retries = 3 attempts and slept 2 and
\* then 4 seconds between them.
C11_EveryFailureRetried ==
    (FetchOver /\ op_log # <<>> /\ FailedAttempt(op_log[Len(op_log)])) =>
        /\ Len(op_log) = DECORATOR.max_retries
        /\ sleeps = <<2, 4>>

\* the listings of the page, once process_listing_page has found a list
Listings == ListingsOf(data).v
InBatch == pl_pc \in {"cars", "returned"} /\ ~NoListings(FALSE, data)

Fates(fate) == {i \in 1..Len(batch_log) : batch_log[i].fate = fate}

\* C16: an insert_car that fails returns False, never raises and leaves
\* the table as it was; the listing is not counted, the count being the
\* number of inserts that returned True, and the loop goes on with the
\* next listing of the page.
C16_FaultIsFalseNotCounted ==
    /\ store_op.op = "insert" => ~store_op.raised
    /\ (store_op.op = "insert" /\ ~store_op.ret) => store_op.replaced = {}
    /\ InBatch =>
          /\ processed_count = Cardinality(Fates("inserted"))
          /\ Len(batch_log) + Len(car_listings) = Len(Listings)
          /\ pl_pc = "returned" =>
                /\ car_listings = <<>>
                /\ pl_ret = Cardinality(Fates("inserted"))

\* the listing names no usable id: it is no dict, its _id is missing or
\* empty, or every character of its _id is whitespace or blacklisted
NoExtractableId(car) ==
    \/ ~IsDict(car)
    \/ ~Truthy(Get(car.v, "_id"))
    \/ LET id == PyToStr(Get(car.v, "_id"))
       IN  \A i \in 1..Len(id) : id[i] \in Whitespace \cup dangerous_chars

\* C17: a listing without a usable id is discarded, and every stored id is
\* the usable id of a listing of the page.
C17_NoIdDiscarded ==
    /\ \A i \in 1..Len(batch_log) :
          NoExtractableId(batch_log[i].car) => batch_log[i].fate = "absent"
    /\ \A r \in cars :
          \E i \in 1..Len(batch_log) :
              /\ ~NoExtractableId(batch_log[i].car)
              /\ r.id = sanitize_string(Get(batch_log[i].car.v, "_id"), 50)

\* C18: when the page is done, a listing whose extraction raised is
\* absent, and every other listing of the batch whose extraction succeeds,
\* before or after it, has been handed to insert_car and has its row in the
\* table unless the insert met a storage fault.
C18_AbsentForThatListingOnly ==
    (InBatch /\ pl_pc = "returned") =>
        \A i \in 1..Len(batch_log) :
            (IsDict(Listings[i]) /\ Truthy(Get(Listings[i].v, "_id"))
                /\ ExtractRaises(Listings[i])) =>
                /\ batch_log[i].car = Listings[i]
                /\ batch_log[i].fate = "absent"
                /\ \A j \in (1..Len(Listings)) \ {i} :
                      extract_car_info(Listings[j]) # Absent =>
                          /\ j <= Len(batch_log)
                          /\ batch_log[j].fate \in {"inserted", "fault"}
                          /\ batch_log[j].fate = "inserted" =>
                                \E r \in cars : r.id = NewRow(CarInfoOf(Listings[j])).id

\* C19: every car_info extract_car_info returns and every stored row has a
\* price and a mileage that are not negative.
C19_NonNegativeNumbers ==
    /\ \A i \in 1..Len(batch_log) :
          LET car_info == extract_car_info(batch_log[i].car)
          IN  car_info # Absent =>
                  /\ car_info["Price"].v >= 0
                  /\ car_info["Features"]["mileage_road"].v >= 0
    /\ \A r \in cars : r.price.v >= 0 /\ r.mileage.v >= 0

\* the listing is a dict with an id and without any nested block
IdOnly(car) ==
    /\ IsDict(car)
    /\ Truthy(Get(car.v, "_id"))
    /\ DOMAIN car.v = {"_id"}

\* C23: a listing with an id and without nested blocks is extracted, not
\* absent, and its car_info has price, mileage and registration year 0,
\* transmission, power, CO2 and consumption "Unknown", fuel "Hybrid" and
\* the title "Unknown Unknown".
C23_DefaultsWithoutBlocks ==
    \A i \in 1..Len(batch_log) :
        IdOnly(batch_log[i].car) =>
            LET car_info == extract_car_info(batch_log[i].car)
            IN  /\ batch_log[i].fate # "absent"
                /\ car_info # Absent
                /\ car_info["Price"] = PyInt(0)
                /\ car_info["Features"]["mileage_road"] = PyInt(0)
                /\ car_info["Features"]["calendar"] = PyInt(0)
                /\ car_info["Transmission"] = PyStr(<<"U", "n", "k", "n", "o", "w", "n">>)
                /\ car_info["Features"]["gas_pump"] = PyStr(<<"H", "y", "b", "r", "i", "d">>)
                /\ car_info["Features"]["speedometer"] = PyStr(<<"U", "n", "k", "n", "o", "w", "n">>)
                /\ car_info["Features"]["leaf"] = PyStr(<<"U", "n", "k", "n", "o", "w", "n">>)
                /\ car_info["Features"]["water_drop"] = PyStr(<<"U", "n", "k", "n", "o", "w", "n">>)
                /\ car_info["Model and Make"] =
                      PyStr(<<"U", "n", "k", "n", "o", "w", "n", " ",
                              "U", "n", "k", "n", "o", "w", "n">>)

\* C24: the count process_listing_page returns, which check_new_listings
\* adds to total_processed and to cars_processed, is the number of
\* insert_car calls of the page that returned True: a listing that was
\* absent or whose insert failed is not counted, and every listing whose
\* row was written is.
C24_CountIsSucceededUpserts ==
    pl_pc = "returned" => pl_ret = Cardinality(Fates("inserted"))

\* C23's case: a listing that is only an id was extracted and its row
\* inserted.
C23_Witness ==
    \E i \in 1..Len(batch_log) :
        /\ IdOnly(batch_log[i].car)
        /\ batch_log[i].fate = "inserted"
        /\ \E r \in cars : r.id = Get(batch_log[i].car.v, "_id").v

(***************************************************************************)
(* Claims about the sanitizers.                                            *)
(***************************************************************************)
NonBlank(s) == {i \in 1..Len(s) : s[i] \notin Whitespace}
MaxOf(S) == CHOOSE x \in S : \A y \in S : x >= y

\* the positions of str(value) that survive trimming and truncation
Region(s, n) ==
    IF NonBlank(s) = {} THEN {}
    ELSE {i \in MinOf(NonBlank(s))..MaxOf(NonBlank(s)) : i < MinOf(NonBlank(s)) + n}

\* C20: sanitize_string returns a non-empty text without any blacklisted
\* character; it returns "Unknown" when the value is None or when every
\* character left by trimming and truncating is blacklisted, and otherwise
\* the characters left that are not blacklisted, in their order.
C20_NonEmptyAndClean ==
    applied =>
        LET s == PyToStr(arg_value)
            left == {i \in Region(s, arg_length) : s[i] \notin dangerous_chars}
        IN  /\ out_text # <<>>
            /\ \A i \in 1..Len(out_text) : out_text[i] \notin dangerous_chars
            /\ (arg_value = PyNone \/ left = {}) => out_text = Unknown
            /\ (arg_value # PyNone /\ left # {}) =>
                  /\ Len(out_text) = Cardinality(left)
                  /\ \A i \in left :
                        out_text[Cardinality({j \in left : j <= i})] = s[i]

\* C20's case: a text was trimmed, cut at max_length and stripped of a
\* quote, and something of it is left.
C20_Witness ==
    /\ applied
    /\ arg_value.t = "str"
    /\ arg_length < Len(arg_value.v) - 1
    /\ Head(arg_value.v) = " "
    /\ \E i \in 1..Len(arg_value.v) : arg_value.v[i] = "'"
    /\ out_text # Unknown
    /\ Len(out_text) < arg_length

\* C21: the text sanitize_string returns is at most max_length characters
\* long, for every value and every max_length, the fallback included.
C21_LengthBounded ==
    applied => Len(out_text) <= arg_length

\* the characters of a text that are digits, '.' or '-'
Kept(s) == SelectSeq(s, LAMBDA c : c \in Digits \/ c = "." \/ c = "-")

\* a decimal numeral: a digit somewhere, one '.' at most, a '-' in front only
WellFormed(f) ==
    /\ \E i \in 1..Len(f) : f[i] \in Digits
    /\ Cardinality({i \in 1..Len(f) : f[i] = "."}) <= 1
    /\ \A i \in 1..Len(f) : f[i] = "-" => i = 1

\* the natural number a text of digits denotes
RECURSIVE ValueOf(_)
ValueOf(d) ==
    IF d = <<>> THEN 0
    ELSE DigitVal(Head(d)) * Pow(10, Len(d) - 1) + ValueOf(Tail(d))

\* the signed number the digits of a well-formed numeral denote, and the
\* number of its digits behind the '.'
Magnitude(f) ==
    (IF Head(f) = "-" THEN 0 - 1 ELSE 1) * ValueOf(SelectSeq(f, LAMBDA c : c \in Digits))
Places(f) == Cardinality({i \in 1..Len(f) : \E j \in 1..(i - 1) : f[j] = "."})

\* C22: sanitize_number returns a numeric value unchanged, the default for
\* None, and for a text the number its digits, '.' and '-' denote (a float
\* when a '.' is among them, an int otherwise), or the default when these
\* characters are not a numeral (no digit, several '.', a '-' not in front).
C22_NumberOrDefault ==
    applied =>
        /\ arg_value.t \in {"int", "float"} => out_number = arg_value
        /\ arg_value = PyNone => out_number = arg_default
        /\ arg_value.t = "str" =>
              LET f == Kept(arg_value.v)
              IN  IF ~WellFormed(f) THEN out_number = arg_default
                  ELSE IF \E i \in 1..Len(f) : f[i] = "."
                  THEN /\ out_number.t = "float"
                       /\ out_number.v * Pow(10, Places(f))
                              = Magnitude(f) * Pow(10, out_number.s)
                  ELSE out_number = PyInt(Magnitude(f))

\* C22's case: a text with another character beside a negative decimal
\* numeral was parsed to that number, the default being another one.
C22_Witness ==
    /\ applied
    /\ arg_default = PyInt(7)
    /\ arg_value.t = "str"
    /\ \E i \in 1..Len(arg_value.v) : arg_value.v[i] = "a"
    /\ out_number = PyFloat(0 - 1, 1)

\* C27: sanitize_string applied to its own result, with the same
\* max_length, returns that result; in particular the id insert_car writes,
\* sanitize_string(car_info['ID'], 50), is the id extract_car_info made with
\* sanitize_string(car_id, 50) and put in the link.
C27_Idempotent ==
    applied =>
        /\ sanitize_string(PyStr(out_text), arg_length) = out_text
        /\ LET car_id == sanitize_string(arg_value, 50)
           IN  sanitize_string(PyStr(car_id), 50) = car_id

=============================================================================
